---- MODULE Spec2Model ----
(***************************************************************************)
(* Order / OrderItem / Payment bookkeeping of orders/models.py.            *)
(*                                                                         *)
(* The database tables are sets of rows.  An in-memory Order instance (the *)
(* Python object a caller, an OrderItem or a Payment holds) is a record of *)
(* its own: the code reads status and total_price from the instance and    *)
(* the payments and items from the database, so an instance and its row    *)
(* can differ.  For each order the model keeps one long-lived instance     *)
(* (inst[pk], the object returned by the creating save); an operation runs *)
(* either on that instance ("cached": item.order / payment.order was set   *)
(* to it) or on one just fetched from the row ("fresh": the foreign key    *)
(* descriptor loads the order when none is cached).                        *)
(*                                                                         *)
(* Money is an integer number of currency units.  A nullable value is <<>> *)
(* (None) or <<v>>.  A primary key or foreign key of 0 is None / NULL.     *)
(***************************************************************************)
EXTENDS Integers, Sequences, FiniteSets, TLC

\* ---------------------------------------------------------------- bounds
MaxOrders == 1      \* Order rows ever inserted in the order workflow (Spec)
MaxItems == 1       \* OrderItem rows stored at once in the order workflow (Spec)
MaxPays == 2        \* Payment rows stored at once
MaxPrice == 2       \* unit_price ranges over 1..MaxPrice
MaxQty == 1         \* quantity ranges over 0..MaxQty
MaxAmount == 2      \* a payment's amount ranges over 1..MaxAmount
MaxLines == 2       \* OrderItem rows stored at once in the line-item specification
MaxNumbered == 3    \* Order rows ever inserted in the numbering specifications
MaxDay == 2         \* calendar days the numbering specifications cover
MaxClients == 2     \* concurrent requests in the race specification

OrderIds == 1..(IF MaxOrders > MaxNumbered THEN MaxOrders ELSE MaxNumbered)
Vias == {"cached", "fresh"}
Prices == 1..MaxPrice
Qtys == 0..MaxQty
Amounts == 1..MaxAmount
Clients == 1..MaxClients
ProductIds == {1}
VariantIds == {1}

\* Order.Status
PENDING == "pending"
PROCESSING == "processing"
COMPLETED == "completed"
Statuses == {PENDING, PROCESSING, COMPLETED}

\* What a save ends with: OK, or the exception it raises.
OK == "ok"
ErrNotPaid == "Cannot mark order as processing or completed before full payment."
ErrNoRef == "Either a product or a menu variant must be specified."
ErrBothRef == "You can't set both a product and a menu variant."
ErrExceeds == "Total payment exceeds the order total"
ErrField == "ValidationError: invalid field"
ErrType == "TypeError"
ErrValue == "ValueError"
ErrIntegrity == "IntegrityError"
ErrDatabase == "DatabaseError"

\* The exceptions that are validation errors (rest_framework's and Django's).
ValidationErrors == {ErrNotPaid, ErrNoRef, ErrBothRef, ErrExceeds, ErrField}

Null == <<>>
Some(v) == <<v>>
\* Python's `x or 0` on a nullable number.
OrZero(t) == IF t = Null THEN 0 ELSE t[1]

VARIABLES
    orders,       \* table `order`: rows [pk, order_number, order_date, status, total_price]
    items,        \* table `order_item`: rows [pk, order, unit_price, quantity, total_price, product, menu_variant]
    payments,     \* table `payment`: rows [pk, order, amount]
    nextOrderPk,  \* the auto-increment counter of table `order`
    products,     \* primary keys of the stored Products
    variants,     \* primary keys of the stored MenuVariants
    inst,         \* the long-lived in-memory Order instance of each order, by pk
    today,        \* timezone.localdate()
    req,          \* concurrent requests creating an order: [pc, last_number]
    pay,          \* concurrent requests saving a payment: [pc, order, amount]
    last          \* the operation run last, its order and how it ended: [op, pk, res]

vars == <<orders, items, payments, nextOrderPk,
          products, variants, inst, today, req, pay, last>>

\* ------------------------------------------------------------- queries
OrderPks(ords) == {r.pk : r \in ords}
OrderRow(ords, pk) == CHOOSE r \in ords : r.pk = pk
ItemsOf(its, pk) == {i \in its : i.order = pk}
PaymentsOf(pays, pk) == {p \in pays : p.order = pk}

\* The primary key an INSERT gets in a table of at most max rows.  A key is an
\* opaque identifier of the row; freed keys are given out again.
FreePk(rows) ==
    CHOOSE k \in 1..(Cardinality(rows) + 1) :
        /\ \A r \in rows : r.pk # k
        /\ \A j \in 1..(k - 1) : \E r \in rows : r.pk = j

RECURSIVE SumTotalPrice(_)
\* aggregate(Sum('total_price')) or 0
SumTotalPrice(its) ==
    IF its = {} THEN 0
    ELSE LET i == CHOOSE x \in its : TRUE
         IN OrZero(i.total_price) + SumTotalPrice(its \ {i})

RECURSIVE SumAmount(_)
\* aggregate(Sum('amount')) or 0
SumAmount(pays) ==
    IF pays = {} THEN 0
    ELSE LET p == CHOOSE x \in pays : TRUE
         IN p.amount + SumAmount(pays \ {p})

RECURSIVE MaxNumber(_)
\* aggregate(Max('order_number')) or 0
MaxNumber(ords) ==
    IF ords = {} THEN 0
    ELSE LET r == CHOOSE x \in ords : TRUE
             m == MaxNumber(ords \ {r})
         IN IF r.order_number > m THEN r.order_number ELSE m

\* Faulty variant: the largest order_number of all days
LastNumberAnyDay(ords, day) == MaxNumber(ords)

\* Order.objects.filter(order_date=today).aggregate(Max('order_number')) or 0
LastNumber(ords, day) == MaxNumber({r \in ords : r.order_date = day})

\* Faulty variant: the table without the unique constraint
UniqueTogetherMissing(ords) == TRUE

\* Meta.unique_together = ('order_number', 'order_date'), as the table enforces it
UniqueTogether(ords) ==
    \A r1, r2 \in ords :
        (r1.order_number = r2.order_number /\ r1.order_date = r2.order_date)
            => r1.pk = r2.pk

\* Faulty variant: an unset total_price is never fully paid
IsFullyPaidSetTotal(o, pays) ==
    o.total_price # Null /\ SumAmount(PaymentsOf(pays, o.pk)) = o.total_price[1]

\* Order.is_fully_paid, read through the instance o
IsFullyPaid(o, pays) ==
    SumAmount(PaymentsOf(pays, o.pk)) = OrZero(o.total_price)

\* An Order() not saved yet
NewInstance(s, t) ==
    [pk |-> 0, order_number |-> 0, order_date |-> 0, status |-> s, total_price |-> t]

\* ------------------------------------------------------------- Order.save
\* What a save returns here: how it ended, the instance afterwards (Python
\* keeps the assignments made before an exception), the table, the counter.
Outcome(res, o, ords, npk) ==
    [res |-> res, inst |-> o, orders |-> ords, nextOrderPk |-> npk]

\* super().save(): INSERT for an instance without pk; otherwise UPDATE of
\* the fields in uf ("all" without update_fields), and INSERT when the
\* UPDATE matches no row.  auto_now_add sets order_date on every INSERT.
ModelSave(o, uf, ords, npk, day) ==
    IF o.pk = 0 THEN
        LET row == [o EXCEPT !.pk = npk, !.order_date = day]
        IN IF UniqueTogether(ords \cup {row})
           THEN Outcome(OK, row, ords \cup {row}, npk + 1)
           ELSE Outcome(ErrIntegrity, [o EXCEPT !.order_date = day], ords, npk)
    ELSE IF o.pk \in OrderPks(ords) THEN
        LET old == OrderRow(ords, o.pk)
            row == CASE uf = "all" -> o
                     [] uf = "total_price" -> [old EXCEPT !.total_price = o.total_price]
                     [] uf = "status" -> [old EXCEPT !.status = o.status]
            ords2 == (ords \ {old}) \cup {row}
        IN IF UniqueTogether(ords2)
           THEN Outcome(OK, o, ords2, npk)
           ELSE Outcome(ErrIntegrity, o, ords, npk)
    ELSE IF uf = "all" THEN
        LET row == [o EXCEPT !.order_date = day]
        IN IF UniqueTogether(ords \cup {row})
           THEN Outcome(OK, row, ords \cup {row}, npk)
           ELSE Outcome(ErrIntegrity, row, ords, npk)
    ELSE Outcome(ErrDatabase, o, ords, npk)

\* Order.save refuses the status: processing or completed, and not fully paid
Premature(o, pays) ==
    o.status \in {COMPLETED, PROCESSING} /\ ~IsFullyPaid(o, pays)

\* Order.save numbers an instance without pk: last_number is the day's
\* largest order_number, as read
Numbered(o, last_number, day) ==
    IF o.pk = 0
    THEN [o EXCEPT !.order_date = day, !.order_number = last_number + 1]
    ELSE o

\* Order.save
OrderSave(o, uf, ords, pays, npk, day) ==
    IF Premature(o, pays)
    THEN Outcome(ErrNotPaid, o, ords, npk)
    ELSE ModelSave(Numbered(o, LastNumber(ords, day), day), uf, ords, npk, day)

\* Order.update_total_price
UpdateTotalPrice(o, ords, its, pays, npk, day) ==
    LET total_price_agg == SumTotalPrice(ItemsOf(its, o.pk))
    IN IF o.total_price # Some(total_price_agg)
       THEN OrderSave([o EXCEPT !.total_price = Some(total_price_agg)],
                      "total_price", ords, pays, npk, day)
       ELSE Outcome(OK, o, ords, npk)

\* Faulty variant: the new status is set on the instance and never saved
UpdateStatusUnsaved(o, ords, pays, npk, day) ==
    IF o.status = PENDING /\ IsFullyPaid(o, pays)
    THEN Outcome(OK, [o EXCEPT !.status = PROCESSING], ords, npk)
    ELSE Outcome(OK, o, ords, npk)

\* Faulty variant: the check that the status is pending is left out
UpdateStatusAnyStatus(o, ords, pays, npk, day) ==
    IF IsFullyPaid(o, pays)
    THEN OrderSave([o EXCEPT !.status = PROCESSING], "status", ords, pays, npk, day)
    ELSE Outcome(OK, o, ords, npk)

\* Order.update_status
UpdateStatus(o, ords, pays, npk, day) ==
    IF o.status = PENDING /\ IsFullyPaid(o, pays)
    THEN OrderSave([o EXCEPT !.status = PROCESSING], "status", ords, pays, npk, day)
    ELSE Outcome(OK, o, ords, npk)

\* Faulty variant: no transaction, the writes made before the exception stay
AtomicNoRollback(res, before, after) == after

\* `with transaction.atomic():` the writes of the block are kept when it ends
\* with res = OK and undone when an exception leaves it.
Atomic(res, before, after) == IF res = OK THEN after ELSE before

\* ------------------------------------------------------------- OrderItem
\* Faulty variant: the check for both references set is left out
ItemCleanEitherOnly(product, menu_variant) ==
    IF product = 0 /\ menu_variant = 0 THEN ErrNoRef ELSE OK

\* OrderItem.clean
ItemClean(product, menu_variant) ==
    IF product = 0 /\ menu_variant = 0 THEN ErrNoRef
    ELSE IF product # 0 /\ menu_variant # 0 THEN ErrBothRef
    ELSE OK

\* self.total_price = self.unit_price * self.quantity
ItemTotal(unit_price, quantity) == unit_price * quantity

\* Faulty variant: a total_price the caller supplied is kept
SavedItemTotalKept(total_price, unit_price, quantity) ==
    IF total_price = Null THEN Some(ItemTotal(unit_price, quantity)) ELSE total_price

\* The total_price OrderItem.save writes for an item the caller constructed
\* with total_price: the assignment before the write replaces it.
SavedItemTotal(total_price, unit_price, quantity) ==
    Some(ItemTotal(unit_price, quantity))

\* ------------------------------------------------------------- Payment
\* Payment.clean, for a payment of `amount` on the order instance o; a stored
\* payment that is saved again is itself among the order's payments.
PaymentClean(o, amount, pays) ==
    LET total_paid == SumAmount(PaymentsOf(pays, o.pk))
    IN IF o.total_price = Null THEN ErrType
       ELSE IF total_paid + amount > o.total_price[1] THEN ErrExceeds
       ELSE OK

\* ------------------------------------------------------------- state machine
Done(op, pk, res) == [op |-> op, pk |-> pk, res |-> res]

Init ==
    /\ orders = {}
    /\ items = {}
    /\ payments = {}
    /\ nextOrderPk = 1
    /\ products = ProductIds
    /\ variants = VariantIds
    /\ inst = [pk \in OrderIds |-> NewInstance(PENDING, Null)]
    /\ today = 1
    /\ req = [c \in Clients |-> [pc |-> "idle", last_number |-> 0]]
    /\ pay = [c \in Clients |-> [pc |-> "idle", order |-> NewInstance(PENDING, Null),
                                  amount |-> 0]]
    /\ last = Done("init", 0, OK)

\* The Order instance an operation on order pk runs on.
Instance(pk, via) == IF via = "cached" THEN inst[pk] ELSE OrderRow(orders, pk)

\* The long-lived instances after an operation left its instance as o.
Keep(pk, via, o) == IF via = "cached" THEN [inst EXCEPT ![pk] = o] ELSE inst

\* An operation on order pk can run: the long-lived instance exists, or the
\* row can be fetched.
Usable(pk, via) ==
    IF via = "cached" THEN inst[pk].pk # 0 ELSE pk \in OrderPks(orders)

\* o = Order(status=s, total_price=t); o.save()
CreateOrder(s, t) ==
    /\ LET r == OrderSave(NewInstance(s, t), "all", orders, payments, nextOrderPk, today)
       IN /\ orders' = r.orders
          /\ nextOrderPk' = r.nextOrderPk
          /\ inst' = IF r.res = OK THEN [inst EXCEPT ![r.inst.pk] = r.inst] ELSE inst
          /\ last' = Done("CreateOrder", r.inst.pk, r.res)
    /\ UNCHANGED <<items, payments, products, variants, today, req, pay>>

\* The same on Django 4.1 and later, where self.payments of an instance
\* without pk raises ValueError (earlier versions query an empty set).
CreateOrderNoPk(s, t) ==
    /\ s \in {COMPLETED, PROCESSING}
    /\ last' = Done("CreateOrder", 0, ErrValue)
    /\ UNCHANGED <<orders, items, payments, nextOrderPk, products, variants, inst,
                   today, req, pay>>

\* o.refresh_from_db() on the long-lived instance
RefreshOrder(pk) ==
    /\ pk \in OrderPks(orders)
    /\ inst[pk] # OrderRow(orders, pk)
    /\ inst' = [inst EXCEPT ![pk] = OrderRow(orders, pk)]
    /\ last' = Done("RefreshOrder", pk, OK)
    /\ UNCHANGED <<orders, items, payments, nextOrderPk, products, variants, today, req, pay>>

\* o.status = s; o.save() on an instance of order pk
SaveOrder(pk, via, s) ==
    /\ Usable(pk, via)
    /\ LET r == OrderSave([Instance(pk, via) EXCEPT !.status = s], "all", orders,
                          payments, nextOrderPk, today)
       IN /\ orders' = r.orders
          /\ nextOrderPk' = r.nextOrderPk
          /\ inst' = Keep(pk, via, r.inst)
          /\ last' = Done("SaveOrder", pk, r.res)
    /\ UNCHANGED <<items, payments, products, variants, today, req, pay>>

\* o.update_status() on an instance of order pk
UpdateOrderStatus(pk, via) ==
    /\ Usable(pk, via)
    /\ LET r == UpdateStatus(Instance(pk, via), orders, payments, nextOrderPk, today)
       IN /\ orders' = r.orders
          /\ nextOrderPk' = r.nextOrderPk
          /\ inst' = Keep(pk, via, r.inst)
          /\ last' = Done("UpdateStatus", pk, r.res)
    /\ UNCHANGED <<items, payments, products, variants, today, req, pay>>

\* Order.delete(): on_delete=CASCADE removes the order's items and payments
DeleteOrder(pk) ==
    /\ pk \in OrderPks(orders)
    /\ orders' = {r \in orders : r.pk # pk}
    /\ items' = {i \in items : i.order # pk}
    /\ payments' = {p \in payments : p.order # pk}
    /\ last' = Done("DeleteOrder", pk, OK)
    /\ UNCHANGED <<nextOrderPk, products, variants, inst, today, req, pay>>

\* OrderItem.save of a new item (ipk = 0) or of the stored item ipk of
\* order opk, for an item whose total_price the caller had set to total_price.
SaveSuppliedItem(total_price, ipk, opk, via, unit_price, quantity, product, menu_variant) ==
    LET o == Instance(opk, via)
        new == ipk = 0
        pk == IF new THEN FreePk(items) ELSE ipk
        row == [pk |-> pk, order |-> opk, unit_price |-> unit_price,
                quantity |-> quantity,
                total_price |-> SavedItemTotal(total_price, unit_price, quantity),
                product |-> product, menu_variant |-> menu_variant]
        items2 == {i \in items : i.pk # pk} \cup {row}
        cleaned == ItemClean(product, menu_variant)
        r == UpdateTotalPrice(o, orders, items2, payments, nextOrderPk, today)
    IN /\ Usable(opk, via)
       /\ new \/ \E i \in items : i.pk = ipk /\ i.order = opk
       /\ product \in {0} \cup products
       /\ menu_variant \in {0} \cup variants
       /\ IF cleaned # OK THEN
              /\ last' = Done("SaveItem", opk, cleaned)
              /\ UNCHANGED <<orders, items, inst>>
          ELSE IF opk \notin OrderPks(orders) THEN
              \* full_clean: the order row does not exist
              /\ last' = Done("SaveItem", opk, ErrField)
              /\ UNCHANGED <<orders, items, inst>>
          ELSE
              /\ last' = Done("SaveItem", opk, r.res)
              /\ items' = Atomic(r.res, items, items2)
              /\ orders' = Atomic(r.res, orders, r.orders)
              /\ inst' = Keep(opk, via, r.inst)
       /\ UNCHANGED <<payments, nextOrderPk, products, variants, today, req, pay>>

\* OrderItem.save of an item whose total_price the caller left unset.
SaveItem(ipk, opk, via, unit_price, quantity, product, menu_variant) ==
    SaveSuppliedItem(Null, ipk, opk, via, unit_price, quantity, product, menu_variant)

\* OrderItem.delete()
DeleteItem(ipk) ==
    /\ \E i \in items : i.pk = ipk
    /\ items' = {i \in items : i.pk # ipk}
    /\ last' = Done("DeleteItem", (CHOOSE i \in items : i.pk = ipk).order, OK)
    /\ UNCHANGED <<orders, payments, nextOrderPk, products, variants, inst, today, req, pay>>

\* Payment.save of a new payment (ppk = 0) or of the stored payment ppk of
\* order opk.
SavePayment(ppk, opk, via, amount) ==
    LET o == Instance(opk, via)
        new == ppk = 0
        pk == IF new THEN FreePk(payments) ELSE ppk
        row == [pk |-> pk, order |-> opk, amount |-> amount]
        payments2 == {p \in payments : p.pk # pk} \cup {row}
        cleaned == PaymentClean(o, amount, payments)
        r == UpdateStatus(o, orders, payments2, nextOrderPk, today)
    IN /\ Usable(opk, via)
       /\ new \/ \E p \in payments : p.pk = ppk /\ p.order = opk
       /\ IF cleaned # OK THEN
              /\ last' = Done("SavePayment", opk, cleaned)
              /\ UNCHANGED <<orders, payments, inst>>
          ELSE IF opk \notin OrderPks(orders) THEN
              \* full_clean: the order row does not exist
              /\ last' = Done("SavePayment", opk, ErrField)
              /\ UNCHANGED <<orders, payments, inst>>
          ELSE
              /\ last' = Done("SavePayment", opk, r.res)
              /\ payments' = Atomic(r.res, payments, payments2)
              /\ orders' = Atomic(r.res, orders, r.orders)
              /\ inst' = Keep(opk, via, r.inst)
       /\ UNCHANGED <<items, nextOrderPk, products, variants, today, req, pay>>

\* Payment.delete()
DeletePayment(ppk) ==
    /\ \E p \in payments : p.pk = ppk
    /\ payments' = {p \in payments : p.pk # ppk}
    /\ last' = Done("DeletePayment", (CHOOSE p \in payments : p.pk = ppk).order, OK)
    /\ UNCHANGED <<orders, items, nextOrderPk, products, variants, inst, today, req, pay>>

\* Product.delete(): on_delete=SET_NULL on OrderItem.product
DeleteProduct(p) ==
    /\ p \in products
    /\ products' = products \ {p}
    /\ items' = {IF i.product = p THEN [i EXCEPT !.product = 0] ELSE i : i \in items}
    /\ last' = Done("DeleteProduct", 0, OK)
    /\ UNCHANGED <<orders, payments, nextOrderPk, variants, inst, today, req, pay>>

\* MenuVariant.delete(): on_delete=SET_NULL on OrderItem.menu_variant
DeleteVariant(v) ==
    /\ v \in variants
    /\ variants' = variants \ {v}
    /\ items' = {IF i.menu_variant = v THEN [i EXCEPT !.menu_variant = 0] ELSE i : i \in items}
    /\ last' = Done("DeleteVariant", 0, OK)
    /\ UNCHANGED <<orders, payments, nextOrderPk, products, inst, today, req, pay>>

\* Midnight passes.
NextDay ==
    /\ today < MaxDay
    /\ today' = today + 1
    /\ last' = Done("NextDay", 0, OK)
    /\ UNCHANGED <<orders, items, payments, nextOrderPk, products, variants, inst, req, pay>>

\* Order.save of a new pending order by request c, up to the read of the
\* day's largest order_number; other requests can run before the INSERT.
BeginCreate(c) ==
    /\ req[c].pc = "idle"
    /\ ~Premature(NewInstance(PENDING, Null), payments)
    /\ req' = [req EXCEPT ![c] = [pc |-> "read",
                                  last_number |-> LastNumber(orders, today)]]
    /\ UNCHANGED <<orders, items, payments, nextOrderPk, products, variants, inst,
                   today, pay, last>>

\* The rest of that Order.save: the instance is numbered from what was read
\* and inserted.  An IntegrityError of the INSERT leaves save(); nothing in
\* save() catches it or allocates another number.
FinishCreate(c) ==
    /\ req[c].pc = "read"
    /\ LET o == Numbered(NewInstance(PENDING, Null), req[c].last_number, today)
           r == ModelSave(o, "all", orders, nextOrderPk, today)
       IN /\ orders' = r.orders
          /\ nextOrderPk' = r.nextOrderPk
          /\ inst' = IF r.res = OK THEN [inst EXCEPT ![r.inst.pk] = r.inst] ELSE inst
          /\ req' = [req EXCEPT ![c].pc = IF r.res = OK THEN "stored" ELSE "failed"]
    /\ UNCHANGED <<items, payments, products, variants, today, pay, last>>

\* Payment.save of a new payment of `amount` on order opk by request c, up
\* to the end of full_clean(): clean() fetches self.order, which the payment
\* keeps, and sums the payments stored so far.  Other requests can run before
\* the INSERT.
BeginPayment(c, opk, amount) ==
    /\ pay[c].pc = "idle"
    /\ opk \in OrderPks(orders)
    /\ LET o == OrderRow(orders, opk)
           cleaned == PaymentClean(o, amount, payments)
       IN pay' = [pay EXCEPT ![c] = [pc |-> IF cleaned = OK THEN "cleaned" ELSE "failed",
                                     order |-> o, amount |-> amount]]
    /\ UNCHANGED <<orders, items, payments, nextOrderPk, products, variants, inst,
                   today, req, last>>

\* The rest of that Payment.save: the transaction that inserts the payment
\* and runs update_status on the order instance fetched by clean().
FinishPayment(c) ==
    /\ pay[c].pc = "cleaned"
    /\ LET o == pay[c].order
           row == [pk |-> FreePk(payments), order |-> o.pk, amount |-> pay[c].amount]
           payments2 == payments \cup {row}
           r == UpdateStatus(o, orders, payments2, nextOrderPk, today)
           res == IF o.pk \in OrderPks(orders) THEN r.res ELSE ErrIntegrity
       IN /\ payments' = Atomic(res, payments, payments2)
          /\ orders' = Atomic(res, orders, r.orders)
          /\ pay' = [pay EXCEPT ![c].pc = IF res = OK THEN "stored" ELSE "failed",
                                ![c].order = r.inst]
    /\ UNCHANGED <<items, nextOrderPk, products, variants, inst, today, req, last>>

\* The caller catches the exception of a rejected save and goes on.
Handle ==
    /\ last.res # OK
    /\ last' = Done("Handle", 0, OK)
    /\ UNCHANGED <<orders, items, payments, nextOrderPk, products, variants, inst,
                   today, req, pay>>

\* The caller starts an operation only after the one before has returned or
\* its exception has been handled.
Ready == last.res = OK

Totals == {Null} \cup {Some(v) : v \in Amounts}

\* The total_price a caller sets on an OrderItem before saving it: none, or a
\* value that no unit_price * quantity gives.
SuppliedTotals == {Null, Some(MaxPrice * MaxQty + 1)}

\* The order workflow of one day: orders, their items (of products) and
\* their payments.
Next ==
    \/ Ready /\ nextOrderPk <= MaxOrders
             /\ \E s \in Statuses, t \in Totals : CreateOrder(s, t)
    \/ Ready /\ nextOrderPk <= MaxOrders
             /\ \E s \in Statuses, t \in Totals : CreateOrderNoPk(s, t)
    \/ Ready /\ \E pk \in 1..MaxOrders : RefreshOrder(pk)
    \/ Ready /\ \E pk \in 1..MaxOrders, via \in Vias, s \in Statuses : SaveOrder(pk, via, s)
    \/ Ready /\ \E pk \in 1..MaxOrders : DeleteOrder(pk)
    \/ Ready /\ \E ipk \in 0..MaxItems, opk \in 1..MaxOrders, via \in Vias,
                   u \in Prices, q \in Qtys, p \in {0} \cup ProductIds :
                    /\ ipk = 0 => Cardinality(items) < MaxItems
                    /\ SaveItem(ipk, opk, via, u, q, p, 0)
    \/ Ready /\ \E ipk \in 1..MaxItems : DeleteItem(ipk)
    \/ Ready /\ \E ppk \in 0..MaxPays, opk \in 1..MaxOrders, via \in Vias, a \in Amounts :
                    /\ ppk = 0 => Cardinality(payments) < MaxPays
                    /\ SavePayment(ppk, opk, via, a)
    \/ Ready /\ \E ppk \in 1..MaxPays : DeletePayment(ppk)
    \/ Handle

Spec == Init /\ [][Next]_vars

\* Sales without a stale instance: orders are created pending with
\* total_price unset, and every item or payment save fetches its order.
NextSales ==
    \/ Ready /\ nextOrderPk <= MaxOrders /\ CreateOrder(PENDING, Null)
    \/ Ready /\ \E ipk \in 0..MaxLines, opk \in 1..MaxOrders,
                   u \in Prices, q \in Qtys, p \in {0} \cup ProductIds :
                    /\ ipk = 0 => Cardinality(items) < MaxLines
                    /\ SaveItem(ipk, opk, "fresh", u, q, p, 0)
    \/ Ready /\ \E ppk \in 0..MaxPays, opk \in 1..MaxOrders, a \in Amounts :
                    /\ ppk = 0 => Cardinality(payments) < MaxPays
                    /\ SavePayment(ppk, opk, "fresh", a)
    \/ Handle

SpecSales == Init /\ [][NextSales]_vars

\* Line items: one pending order, its items of products and menu variants,
\* and the catalog entries being deleted.
NextLines ==
    \/ Ready /\ nextOrderPk <= MaxOrders /\ CreateOrder(PENDING, Null)
    \/ Ready /\ \E pk \in 1..MaxOrders : RefreshOrder(pk)
    \/ Ready /\ \E ipk \in 0..MaxLines, opk \in 1..MaxOrders, via \in Vias,
                   u \in Prices, q \in Qtys,
                   p \in {0} \cup ProductIds, v \in {0} \cup VariantIds :
                    /\ ipk = 0 => Cardinality(items) < MaxLines
                    /\ SaveItem(ipk, opk, via, u, q, p, v)
    \/ Ready /\ \E ipk \in 1..MaxLines : DeleteItem(ipk)
    \/ Ready /\ \E p \in ProductIds : DeleteProduct(p)
    \/ Ready /\ \E v \in VariantIds : DeleteVariant(v)
    \/ Handle

SpecLines == Init /\ [][NextLines]_vars

\* Daily numbering: orders are created, saved again, deleted, over several
\* days.
NextNumbering ==
    \/ Ready /\ nextOrderPk <= MaxNumbered /\ CreateOrder(PENDING, Null)
    \/ Ready /\ \E pk \in 1..MaxNumbered, via \in Vias : SaveOrder(pk, via, PENDING)
    \/ Ready /\ \E pk \in 1..MaxNumbered : DeleteOrder(pk)
    \/ Ready /\ NextDay
    \/ Handle

SpecNumbering == Init /\ [][NextNumbering]_vars

\* Daily numbering with the saves that update_total_price and update_status
\* make: the numbered orders also get an item and payments.
NextDaily ==
    \/ NextNumbering
    \/ Ready /\ \E opk \in 1..MaxNumbered, via \in Vias :
                    /\ Cardinality(items) < MaxItems
                    /\ SaveItem(0, opk, via, MaxPrice, MaxQty, 1, 0)
    \/ Ready /\ \E opk \in 1..MaxNumbered, via \in Vias :
                    /\ Cardinality(payments) < MaxItems
                    /\ SavePayment(0, opk, via, MaxPrice * MaxQty)

SpecDaily == Init /\ [][NextDaily]_vars

\* The status of one order: it is created, saved with a status, paid, and
\* update_status is called on it.
NextStatus ==
    \/ Ready /\ nextOrderPk <= MaxOrders
             /\ \E s \in Statuses, t \in Totals : CreateOrder(s, t)
    \/ Ready /\ \E pk \in 1..MaxOrders, via \in Vias, s \in Statuses : SaveOrder(pk, via, s)
    \/ Ready /\ \E pk \in 1..MaxOrders : DeleteOrder(pk)
    \/ Ready /\ \E opk \in 1..MaxOrders, via \in Vias, a \in Amounts :
                    /\ Cardinality(payments) < MaxPays
                    /\ SavePayment(0, opk, via, a)
    \/ Ready /\ \E ppk \in 1..MaxPays : DeletePayment(ppk)
    \/ Ready /\ \E pk \in 1..MaxOrders, via \in Vias : UpdateOrderStatus(pk, via)
    \/ Handle

SpecStatus == Init /\ [][NextStatus]_vars

\* Items saved with a total_price set by the caller, on one pending order.
NextItems ==
    \/ Ready /\ nextOrderPk <= MaxOrders /\ CreateOrder(PENDING, Null)
    \/ Ready /\ \E pk \in 1..MaxOrders : RefreshOrder(pk)
    \/ Ready /\ \E t \in SuppliedTotals, ipk \in 0..MaxLines, opk \in 1..MaxOrders,
                   via \in Vias, u \in Prices, q \in Qtys, p \in {0} \cup ProductIds :
                    /\ ipk = 0 => Cardinality(items) < MaxLines
                    /\ SaveSuppliedItem(t, ipk, opk, via, u, q, p, 0)
    \/ Handle

SpecItems == Init /\ [][NextItems]_vars

\* Concurrent requests that each create one order, while orders are deleted
\* and days pass.
NextRace ==
    \/ \E c \in Clients : BeginCreate(c)
    \/ \E c \in Clients : FinishCreate(c)
    \/ \E pk \in 1..MaxNumbered : DeleteOrder(pk)
    \/ NextDay

SpecRace == Init /\ [][NextRace]_vars

\* Concurrent requests that each save one payment on an order whose items
\* have been entered.
NextPayRace ==
    \/ Ready /\ nextOrderPk <= MaxOrders /\ CreateOrder(PENDING, Null)
    \/ Ready /\ \E opk \in 1..MaxOrders, u \in Prices, q \in Qtys, p \in {0} \cup ProductIds :
                    /\ Cardinality(items) < MaxItems
                    /\ SaveItem(0, opk, "fresh", u, q, p, 0)
    \/ \E c \in Clients, opk \in 1..MaxOrders, a \in Amounts : BeginPayment(c, opk, a)
    \/ \E c \in Clients : FinishPayment(c)
    \/ Handle

SpecPayRace == Init /\ [][NextPayRace]_vars

\* ------------------------------------------------------------- properties
\* What the tables hold for order pk.
Stored(pk) == pk \in OrderPks(orders)
Row(pk) == OrderRow(orders, pk)
Paid(pk) == SumAmount(PaymentsOf(payments, pk))
ItemSum(pk) == SumTotalPrice(ItemsOf(items, pk))
StoredTotal(pk) == OrZero(Row(pk).total_price)

\* C1: once an OrderItem mutation on an order (an item saved, or an item
\* deleted) has completed, the order's stored total_price is the sum of the
\* total_price of its stored items.
C1_TotalIsItemSum ==
    (last.op \in {"SaveItem", "DeleteItem"} /\ last.res = OK /\ Stored(last.pk))
        => StoredTotal(last.pk) = ItemSum(last.pk)

\* C2: the stored payments of an order never sum to more than its stored
\* total_price.
C2_PaidWithinTotal ==
    \A r \in orders : Paid(r.pk) <= OrZero(r.total_price)

\* C3: a step that takes an order's stored status from pending to processing
\* or completed leaves the stored payments summing exactly to the stored
\* total_price.
C3_AdvanceOnlyWhenPaid ==
    [][\A pk \in OrderIds :
          (/\ Stored(pk)
           /\ pk \in OrderPks(orders')
           /\ Row(pk).status = PENDING
           /\ OrderRow(orders', pk).status \in {PROCESSING, COMPLETED})
          => SumAmount(PaymentsOf(payments', pk)) = OrZero(OrderRow(orders', pk).total_price)
      ]_vars

\* C4: no two stored orders have the same (order_date, order_number).
C4_UniqueNumbers ==
    \A r1, r2 \in orders :
        r1.pk # r2.pk =>
            ~(r1.order_date = r2.order_date /\ r1.order_number = r2.order_number)

\* C4 witness: two orders of one day are stored, and the save of an instance
\* whose row had been deleted has just been refused for its number.
C4_Witness ==
    /\ last.op = "SaveOrder" /\ last.res = ErrIntegrity
    /\ \E r1, r2 \in orders : r1.pk # r2.pk /\ r1.order_date = r2.order_date

\* The instance an operation on order pk runs on holds what the row holds.
InSync(pk, via) == Stored(pk) /\ Usable(pk, via) /\ Instance(pk, via) = Row(pk)

\* C5: on a pending order with total_price unset and no items, saving an
\* item (unit_price u, quantity q) stores total_price u*q; on a pending order
\* whose total is that of its items, a payment within the balance is stored
\* and leaves the status processing when the payments now sum to the total,
\* pending while they sum to less.  (The saves run on an instance that holds
\* what the row holds.)
C5_SaleScenario ==
    [][/\ \A opk \in 1..MaxOrders, via \in Vias, u \in Prices, q \in Qtys, p \in ProductIds :
            (/\ Ready /\ InSync(opk, via)
             /\ Row(opk).status = PENDING /\ Row(opk).total_price = Null
             /\ ItemsOf(items, opk) = {} /\ PaymentsOf(payments, opk) = {}
             /\ SaveItem(0, opk, via, u, q, p, 0))
            => /\ last'.res = OK
               /\ OrderRow(orders', opk).total_price = Some(u * q)
               /\ OrderRow(orders', opk).status = PENDING
       /\ \A opk \in 1..MaxOrders, via \in Vias, a \in Amounts :
            (/\ Ready /\ InSync(opk, via)
             /\ Row(opk).status = PENDING /\ Row(opk).total_price = Some(ItemSum(opk))
             /\ Paid(opk) + a <= ItemSum(opk)
             /\ SavePayment(0, opk, via, a))
            => /\ last'.res = OK
               /\ SumAmount(PaymentsOf(payments', opk)) = Paid(opk) + a
               /\ OrderRow(orders', opk).status =
                      IF Paid(opk) + a = ItemSum(opk) THEN PROCESSING ELSE PENDING
      ]_vars

\* C5 witness: the second of two partial payments has just completed the
\* total of the order's item, and the order is processing.
C5_Witness ==
    /\ last.op = "SavePayment" /\ last.res = OK /\ Stored(last.pk)
    /\ Row(last.pk).status = PROCESSING
    /\ Cardinality(PaymentsOf(payments, last.pk)) = 2
    /\ ItemSum(last.pk) > 0
    /\ Row(last.pk).total_price = Some(ItemSum(last.pk))
    /\ Paid(last.pk) = ItemSum(last.pk)

\* C6: the save of a new payment whose amount, added to the order's stored
\* payments, exceeds the order's total_price (unset counting as nothing to
\* pay) ends in a validation error and stores nothing.
C6_ExcessPaymentRejected ==
    [][\A opk \in 1..MaxOrders, via \in Vias, a \in Amounts :
          (/\ Ready /\ InSync(opk, via)
           /\ Paid(opk) + a > StoredTotal(opk)
           /\ SavePayment(0, opk, via, a))
          => /\ last'.res \in ValidationErrors
             /\ payments' = payments
             /\ orders' = orders
      ]_vars

\* C7: an item save with neither or with both of product and menu_variant
\* set ends in a validation error and leaves the items and the orders as they
\* were; an item a save stores has exactly one of the two set.
C7_ExactlyOneReference ==
    [][/\ \A ipk \in 0..MaxLines, opk \in 1..MaxOrders, via \in Vias, u \in Prices,
             q \in Qtys, p \in {0} \cup ProductIds, v \in {0} \cup VariantIds :
            (/\ Ready
             /\ (p = 0) = (v = 0)
             /\ SaveItem(ipk, opk, via, u, q, p, v))
            => /\ last'.res \in ValidationErrors
               /\ items' = items
               /\ orders' = orders
       /\ (last'.op = "SaveItem" /\ last'.res = OK)
            => \A i \in items' \ items : (i.product = 0) # (i.menu_variant = 0)
      ]_vars

\* C7 witness: a save with both references set has just been refused on an
\* order that holds an item.
C7_Witness ==
    /\ last.op = "SaveItem" /\ last.res = ErrBothRef
    /\ ItemSum(last.pk) > 0
    /\ StoredTotal(last.pk) = ItemSum(last.pk)

\* C8: Order.save of an order with status processing or completed whose
\* stored payments do not sum to its total_price ends in a validation error
\* and leaves the table, and with it the day's numbers, as they were.
C8_PrematureSaveRejected ==
    [][/\ \A pk \in 1..MaxOrders, via \in Vias, s \in {PROCESSING, COMPLETED} :
            (/\ Ready /\ Usable(pk, via)
             /\ Paid(pk) # OrZero(Instance(pk, via).total_price)
             /\ SaveOrder(pk, via, s))
            => /\ last'.res \in ValidationErrors
               /\ orders' = orders
       /\ \A s \in {PROCESSING, COMPLETED}, t \in Totals :
            (/\ Ready /\ OrZero(t) # 0
             /\ CreateOrder(s, t) \/ CreateOrderNoPk(s, t))
            => /\ last'.res \in ValidationErrors
               /\ orders' = orders
               /\ nextOrderPk' = nextOrderPk
      ]_vars

\* C9: an item save or payment save that ends in an exception leaves the
\* tables as they were: no item or payment is stored without the order
\* update that belongs to it.
C9_SaveIsAtomic ==
    [][(last'.op \in {"SaveItem", "SavePayment"} /\ last'.res # OK)
          => (items' = items /\ payments' = payments /\ orders' = orders)
      ]_vars

\* C9 witness: the total update of an item save was refused on a processing
\* order, and the item write did not stay.
C9_Witness ==
    /\ last.op = "SaveItem" /\ last.res = ErrNotPaid /\ Stored(last.pk)
    /\ Row(last.pk).status = PROCESSING
    /\ Paid(last.pk) > 0
    /\ Paid(last.pk) = StoredTotal(last.pk)
    /\ StoredTotal(last.pk) = ItemSum(last.pk)

\* C10: stored numbers never collide; a racing creation whose number is
\* taken when it writes stores nothing and ends failed, one whose number is
\* free stores its order; and a failed request does nothing more (it is not
\* retried with another number).
C10_RaceEndsInFailure ==
    /\ [](\A r1, r2 \in orders :
            (r1.order_date = r2.order_date /\ r1.order_number = r2.order_number)
                => r1 = r2)
    /\ [][\A c \in Clients :
            FinishCreate(c) =>
                IF \E r \in orders : /\ r.order_date = today
                                     /\ r.order_number = req[c].last_number + 1
                THEN orders' = orders /\ req'[c].pc = "failed"
                ELSE /\ Cardinality(orders') = Cardinality(orders) + 1
                     /\ req'[c].pc = "stored"
         ]_vars
    /\ [][\A c \in Clients : req[c].pc = "failed" => req'[c] = req[c]]_vars

\* C10 witness: two requests read the same largest number on the same day;
\* one order is stored and the other request has failed.
C10_Witness ==
    \E c1, c2 \in Clients :
        /\ c1 # c2
        /\ req[c1].pc = "stored" /\ req[c2].pc = "failed"
        /\ req[c1].last_number = req[c2].last_number
        /\ today = 1
        /\ Cardinality(orders) = 1
        /\ nextOrderPk = 2

\* C11: also when payment saves of one order interleave, the stored payments
\* of an order never sum to more than its total_price: of two requests whose
\* amounts together exceed the total, at most one is stored.
C11_ConcurrentPaymentsWithinTotal ==
    /\ \A opk \in OrderPks(orders) : Paid(opk) <= StoredTotal(opk)
    /\ \A c1, c2 \in Clients :
          (/\ c1 # c2
           /\ pay[c1].pc = "stored" /\ pay[c2].pc = "stored"
           /\ pay[c1].order.pk = pay[c2].order.pk
           /\ Stored(pay[c1].order.pk))
          => pay[c1].amount + pay[c2].amount <= StoredTotal(pay[c1].order.pk)

\* C12: every stored OrderItem has exactly one of product and menu_variant
\* set, whatever items are saved and whichever Products and MenuVariants are
\* deleted.
C12_StoredItemHasOneReference ==
    \A i \in items : (i.product = 0) # (i.menu_variant = 0)

\* C14: an item save that returns without error, and with it its call of
\* update_total_price, leaves the order's stored total_price equal to the sum
\* of its stored items, whatever the Order instance it ran on held.
C14_UpdateTotalStoresItemSum ==
    [][\A ipk \in 0..MaxItems, opk \in 1..MaxOrders, via \in Vias, u \in Prices,
          q \in Qtys, p \in ProductIds :
          (/\ Ready
           /\ SaveItem(ipk, opk, via, u, q, p, 0)
           /\ last'.res = OK)
          => OrZero(OrderRow(orders', opk).total_price)
                 = SumTotalPrice(ItemsOf(items', opk))
      ]_vars

\* C17: an order stored as processing or completed has stored payments that
\* sum exactly to its stored total_price.
C17_PaidWhileProcessing ==
    \A r \in orders :
        r.status \in {PROCESSING, COMPLETED} => Paid(r.pk) = OrZero(r.total_price)

\* C18: saving a stored payment again with its amount unchanged is accepted
\* and leaves the payments and the order as they were.
C18_PaymentResaveIdempotent ==
    [][\A ppk \in 1..MaxPays, opk \in 1..MaxOrders, via \in Vias, a \in Amounts :
          (/\ Ready /\ InSync(opk, via)
           /\ [pk |-> ppk, order |-> opk, amount |-> a] \in payments
           /\ SavePayment(ppk, opk, via, a))
          => /\ last'.res = OK
             /\ payments' = payments
             /\ orders' = orders
      ]_vars

\* C13: the first save of an order stores it under today's date with the
\* number 1 when no order of today is stored, and otherwise with the number
\* that follows the largest of today's; every other save (Order.save of a
\* stored order, the saves of update_total_price and update_status) leaves
\* the order_number and order_date of every stored order as they were.
C13_DailyNumbering ==
    [][/\ (last'.op = "CreateOrder" /\ last'.res = OK)
            => \A r \in orders' \ orders :
                  /\ r.order_date = today
                  /\ \A o \in orders : o.order_date = today => o.order_number < r.order_number
                  /\ \/ r.order_number = 1
                     \/ \E o \in orders : /\ o.order_date = today
                                          /\ o.order_number = r.order_number - 1
       /\ \A pk \in OrderPks(orders) \cap OrderPks(orders') :
             /\ OrderRow(orders', pk).order_number = Row(pk).order_number
             /\ OrderRow(orders', pk).order_date = Row(pk).order_date
      ]_vars

\* C13 witness: the second order of day 1 and the first order of day 2 are
\* stored, and the total of the former has just been updated by an item save.
C13_Witness ==
    /\ last.op = "SaveItem" /\ last.res = OK /\ Stored(last.pk)
    /\ Row(last.pk).order_date = 1 /\ Row(last.pk).order_number = 2
    /\ Row(last.pk).total_price = Some(MaxPrice * MaxQty)
    /\ \E r \in orders : r.order_date = 2 /\ r.order_number = 1

\* C15: update_status called on an Order instance writes only when the
\* instance is pending and fully paid, and then it writes the status
\* processing; otherwise it changes neither the row nor the instance.  It
\* leaves items and payments alone, changes no stored field but the status,
\* and no stored status becomes completed or pending.  On an instance that
\* holds what the row holds, the stored status changes from pending only.
C15_UpdateStatusFrame ==
    [][\A pk \in 1..MaxOrders, via \in Vias :
          (Ready /\ UpdateOrderStatus(pk, via)) =>
              LET o == Instance(pk, via)
              IN /\ items' = items
                 /\ payments' = payments
                 /\ IF o.status = PENDING /\ Paid(pk) = OrZero(o.total_price)
                    THEN last'.res = OK =>
                            /\ pk \in OrderPks(orders')
                            /\ OrderRow(orders', pk).status = PROCESSING
                    ELSE /\ last'.res = OK
                         /\ orders' = orders
                         /\ inst' = inst
                 /\ OrderPks(orders') = OrderPks(orders)
                 /\ \A r \in orders :
                       LET r2 == OrderRow(orders', r.pk)
                       IN /\ r2 = [r EXCEPT !.status = r2.status]
                          /\ r2.status # r.status => r2.status = PROCESSING
                          /\ (InSync(pk, via) /\ r2.status # r.status)
                                => r.status = PENDING
      ]_vars

\* C15 witness: update_status has just run on an order whose payments sum to
\* its positive total; the row and the instance are processing.
C15_Witness ==
    /\ last.op = "UpdateStatus" /\ last.res = OK /\ Stored(last.pk)
    /\ Row(last.pk).status = PROCESSING
    /\ inst[last.pk].status = PROCESSING
    /\ Paid(last.pk) > 0
    /\ Paid(last.pk) = StoredTotal(last.pk)

\* C16: every stored OrderItem has total_price = unit_price * quantity; an
\* item save that succeeds stores that product whatever total_price the
\* caller had set, and (on an order instance that holds what the row holds)
\* leaves the order's stored total_price the sum of its stored items.
C16_ItemTotalRecomputed ==
    /\ [](\A i \in items : i.total_price = Some(i.unit_price * i.quantity))
    /\ [][\A t \in SuppliedTotals, ipk \in 0..MaxLines, opk \in 1..MaxOrders,
            via \in Vias, u \in Prices, q \in Qtys, p \in ProductIds :
            (/\ Ready /\ InSync(opk, via)
             /\ SaveSuppliedItem(t, ipk, opk, via, u, q, p, 0))
            => /\ last'.res = OK
               /\ \E i \in ItemsOf(items', opk) :
                     /\ ipk # 0 => i.pk = ipk
                     /\ i.unit_price = u /\ i.quantity = q
                     /\ i.total_price = Some(u * q)
               /\ OrderRow(orders', opk).total_price
                     = Some(SumTotalPrice(ItemsOf(items', opk)))
         ]_vars

\* C16 witness: two items with different totals are stored and the order's
\* total, just updated by an item save, is their sum.
C16_Witness ==
    /\ last.op = "SaveItem" /\ last.res = OK /\ Stored(last.pk)
    /\ \E i, j \in ItemsOf(items, last.pk) :
          /\ i.total_price = Some(MaxPrice * MaxQty)
          /\ j.total_price = Some(1)
    /\ Row(last.pk).total_price = Some(ItemSum(last.pk))

\* C19: Order.save with status processing or completed of a stored order
\* without payments succeeds when the total_price of the saved instance is
\* unset or zero, and is refused, leaving the table as it was, when it is
\* positive; a new order with such a status and a positive total_price is
\* not stored either.
C19_UnpaidZeroTotalIsFullyPaid ==
    [][/\ \A pk \in 1..MaxOrders, via \in Vias, s \in {PROCESSING, COMPLETED} :
            (/\ Ready /\ Usable(pk, via) /\ Stored(pk)
             /\ PaymentsOf(payments, pk) = {}
             /\ SaveOrder(pk, via, s))
            => IF Instance(pk, via).total_price \in {Null, Some(0)}
               THEN /\ last'.res = OK
                    /\ OrderRow(orders', pk).status = s
               ELSE /\ last'.res = ErrNotPaid
                    /\ orders' = orders
       /\ \A s \in {PROCESSING, COMPLETED}, t \in Totals \ {Null} :
            (Ready /\ (CreateOrder(s, t) \/ CreateOrderNoPk(s, t)))
            => /\ last'.res # OK
               /\ orders' = orders
      ]_vars

\* C19 witness: an order with no items, no payments and total_price unset
\* has just been saved as completed.
C19_Witness ==
    /\ last.op = "SaveOrder" /\ last.res = OK /\ Stored(last.pk)
    /\ Row(last.pk).status = COMPLETED
    /\ Row(last.pk).total_price = Null
    /\ items = {} /\ payments = {}

====
